---- MODULE Spec2Model ----
(***************************************************************************)
(* Model of txt2ppt (app.py): text segmentation (parse_text), bilingual    *)
(* pairing (parse_bilingual) and deck assembly (build_ppt).                *)
(*                                                                         *)
(* A Python str is a sequence of one-character strings; a content unit is  *)
(* a record carrying its Python runtime type ("str" or "tuple"), which is  *)
(* what build_ppt's isinstance test looks at.                              *)
(***************************************************************************)
EXTENDS Naturals, Integers, Sequences, FiniteSets

\* ------------------------------------------------------------- bounds
MaxLen == 5         \* longest enumerated input text, in characters

\* --------------------------------------------------------- characters
NL == "\n"
CR == "\r"
SP == " "
Digits == {"0", "1", "2", "3", "4", "5", "6", "7", "8", "9"}

\* str.strip() / regex \s : the whitespace characters of the alphabet
IsSpace(c) == c \in {SP, NL, CR}
\* str.splitlines() line boundaries of the alphabet
IsBreak(c) == c \in {NL, CR}

SetMin(S) == CHOOSE m \in S : \A n \in S : m <= n
SetMax(S) == CHOOSE m \in S : \A n \in S : n <= m

\* str.strip(): drop leading and trailing whitespace
strip(s) ==
    LET keep == {j \in 1..Len(s) : ~IsSpace(s[j])}
    IN  IF keep = {} THEN <<>> ELSE SubSeq(s, SetMin(keep), SetMax(keep))

\* str.splitlines(): split at \n, \r and \r\n (one boundary); no entry for
\* the empty remainder after a final boundary
RECURSIVE splitlines(_)
splitlines(s) ==
    IF s = <<>> THEN <<>>
    ELSE LET brks == {j \in 1..Len(s) : IsBreak(s[j])}
         IN  IF brks = {} THEN <<s>>
             ELSE LET b == SetMin(brks)
                      w == IF s[b] = CR /\ b < Len(s) /\ s[b + 1] = NL
                           THEN 2 ELSE 1
                  IN  <<SubSeq(s, 1, b - 1)>>
                         \o splitlines(SubSeq(s, b + w, Len(s)))

\* re.split(r"\n\s*\n", s): leftmost match, \s* greedy, so a match starts
\* at the first \n that has another \n in the whitespace run after it and
\* ends at the last \n of that run
RECURSIVE re_split_blank(_)
re_split_blank(s) ==
    LET ends(p) == {q \in (p + 1)..Len(s) :
                       /\ s[q] = NL
                       /\ \A j \in (p + 1)..(q - 1) : IsSpace(s[j])}
        starts == {p \in 1..Len(s) : s[p] = NL /\ ends(p) # {}}
    IN  IF starts = {} THEN <<s>>
        ELSE LET p == SetMin(starts)
                 q == SetMax(ends(p))
             IN  <<SubSeq(s, 1, p - 1)>>
                    \o re_split_blank(SubSeq(s, q + 1, Len(s)))

\* str.isdigit()
isdigit(s) == s # <<>> /\ \A j \in 1..Len(s) : s[j] \in Digits

\* \d{2}:\d{2}:\d{2},\d{3}
IsClock(t) ==
    /\ Len(t) = 12
    /\ \A j \in {1, 2, 4, 5, 7, 8, 10, 11, 12} : t[j] \in Digits
    /\ t[3] = ":" /\ t[6] = ":" /\ t[9] = ","

\* ts_re.match(s) for an already stripped s
ts_re_match(s) ==
    /\ Len(s) >= 27
    /\ IsClock(SubSeq(s, 1, 12))
    /\ IsClock(SubSeq(s, Len(s) - 11, Len(s)))
    /\ \E a \in 13..(Len(s) - 14) :
          /\ s[a] = "-" /\ s[a + 1] = "-" /\ s[a + 2] = ">"
          /\ \A j \in 13..(Len(s) - 12) :
                (j < a \/ j > a + 2) => IsSpace(s[j])

\* " ".join(lines)
RECURSIVE join_space(_)
join_space(ls) ==
    IF ls = <<>> THEN <<>>
    ELSE IF Len(ls) = 1 THEN ls[1]
    ELSE ls[1] \o <<SP>> \o join_space(Tail(ls))

\* [f(x) for x in xs]
MapStrip(ls) == [j \in 1..Len(ls) |-> strip(ls[j])]

\* ------------------------------------------------------ content units
\* Python runtime values handed to build_ppt
Str(s) == [type |-> "str", val |-> s]
Tuple(a, b) == [type |-> "tuple", val |-> <<a, b>>]
StrItems(ls) == [j \in 1..Len(ls) |-> Str(ls[j])]

\* the docstring's blank-slide marker ("", "")
BlankSlideMarker == Tuple(<<>>, <<>>)

\* -------------------------------------------------------- parse_text
\* the srt loop body for one block: the kept lines of the block
srt_block_lines(b) ==
    SelectSeq(MapStrip(splitlines(b)),
              LAMBDA s : ~(s = <<>> \/ isdigit(s) \/ ts_re_match(s)))

\* srt_blocks without the "if lines" test
RECURSIVE srt_blocks_KeepsEmpty(_)
srt_blocks_KeepsEmpty(blocks) ==
    IF blocks = <<>> THEN <<>>
    ELSE <<join_space(srt_block_lines(Head(blocks)))>>
            \o srt_blocks_KeepsEmpty(Tail(blocks))

RECURSIVE srt_blocks(_)
srt_blocks(blocks) ==
    IF blocks = <<>> THEN <<>>
    ELSE LET lns == srt_block_lines(Head(blocks))
         IN  (IF lns # <<>> THEN <<join_space(lns)>> ELSE <<>>)
                \o srt_blocks(Tail(blocks))

\* parse_text with line mode trimming the lines it keeps verbatim
parse_text_TrimsKept(content, mode, preserve_blanks) ==
    IF mode = "srt" THEN srt_blocks(re_split_blank(strip(content)))
    ELSE IF mode = "para"
    THEN SelectSeq(MapStrip(re_split_blank(content)), LAMBDA b : b # <<>>)
    ELSE IF preserve_blanks THEN MapStrip(splitlines(content))
    ELSE SelectSeq(MapStrip(splitlines(content)), LAMBDA l : l # <<>>)

parse_text(content, mode, preserve_blanks) ==
    IF mode = "srt" THEN srt_blocks(re_split_blank(strip(content)))
    ELSE IF mode = "para"
    THEN SelectSeq(MapStrip(re_split_blank(content)), LAMBDA b : b # <<>>)
    ELSE IF preserve_blanks THEN splitlines(content)
    ELSE SelectSeq(MapStrip(splitlines(content)), LAMBDA l : l # <<>>)

\* ------------------------------------------------------- slide canvas
\* bg_hex default "#000000" decoded by the generate action
bg_rgb == <<0, 0, 0>>

Arial == <<"A", "r", "i", "a", "l">>

\* add_background_slide: appends one slide with a solid fill, no shapes
add_background_slide(deck, bg) ==
    Append(deck, [fill |-> bg, shapes |-> <<>>])

\* p.font.name = (font_name or "Arial").strip()
font_applied(font_name) ==
    strip(IF font_name = <<>> THEN Arial ELSE font_name)

\* add_textbox_bottom: one more text box on the deck's newest slide
add_textbox_bottom(deck, text, font_name) ==
    [deck EXCEPT ![Len(deck)].shapes =
        Append(@, [text |-> text, font |-> font_applied(font_name)])]

add_text_slide_single(deck, text, font_name, bg) ==
    add_textbox_bottom(add_background_slide(deck, bg), text, font_name)

add_text_slide_bilingual(deck, line1, line2, primary_font, secondary_font, bg) ==
    add_textbox_bottom(
        add_textbox_bottom(add_background_slide(deck, bg), line1, primary_font),
        line2, secondary_font)

\* build_item with a blank item skipped instead of given a blank slide
build_item_SkipsBlank(deck, item, args) ==
    IF args.mode = "bilingual"
    THEN IF item.type = "tuple"
         THEN add_text_slide_bilingual(deck, item.val[1], item.val[2],
                  args.primary_font, args.secondary_font, bg_rgb)
         ELSE add_background_slide(deck, bg_rgb)
    ELSE IF args.blank_slide_on_empty /\ strip(item.val) = <<>>
         THEN deck
         ELSE add_text_slide_single(deck, item.val, args.font_name, bg_rgb)

\* the body of build_ppt's for loops, for one item
build_item(deck, item, args) ==
    IF args.mode = "bilingual"
    THEN IF item.type = "tuple"
         THEN add_text_slide_bilingual(deck, item.val[1], item.val[2],
                  args.primary_font, args.secondary_font, bg_rgb)
         ELSE add_background_slide(deck, bg_rgb)
    ELSE IF args.blank_slide_on_empty /\ strip(item.val) = <<>>
         THEN add_background_slide(deck, bg_rgb)
         ELSE add_text_slide_single(deck, item.val, args.font_name, bg_rgb)

\* ------------------------------------------------------------- state
VARIABLES
    pc,         \* "idle", "pair_own", "pair_simple", "build", "done"
    driver,     \* "ui": the generate button; "script": the functions called directly
    entry,      \* "none", "generate_bilingual", "generate_single", "direct"
    raw_text,   \* the decoded source text
    ui,         \* the widgets' values
    pt,         \* parse_text's arguments (mode, preserve_blanks)
    pb,         \* parse_bilingual's keyword arguments
    raw_lines,  \* parse_bilingual: content.splitlines()
    lines,      \* parse_bilingual, simple policy: the flat list
    i,          \* parse_bilingual: lines consumed so far
    buf,        \* parse_bilingual, own-slide policy: pending lines
    pairs,      \* parse_bilingual: the result list
    lines_src,  \* history: raw line number of each entry of lines
    buf_src,    \* history: raw line number of each entry of buf
    origin,     \* history: raw line numbers each entry of pairs came from
    items,      \* build_ppt: the units
    call,       \* build_ppt: keyword arguments
    k,          \* build_ppt: items processed so far
    prs         \* build_ppt: the deck's slides

vars == <<pc, driver, entry, raw_text, ui, pt, pb, raw_lines, lines, i, buf, pairs,
          lines_src, buf_src, origin, items, call, k, prs>>

inputs == <<driver, raw_text, ui>>
pairer == <<pb, raw_lines, lines, i, buf, pairs, lines_src, buf_src, origin>>
builder == <<items, call, k, prs>>

\* ------------------------------------------------------------- inputs
Alphabet == {"a", "1", SP, NL, CR}
Texts == UNION {[1..n -> Alphabet] : n \in 0..MaxLen}

Clock(d) == <<"0", "0", ":", "0", "0", ":", "0", d, ",", "0", "0", "0">>
Stamp(a, b) == Clock(a) \o <<SP, "-", "-", ">", SP>> \o Clock(b)

\* the subtitle example
SrtSample ==
    <<"1", NL>> \o Stamp("1", "2")
      \o <<NL, "H", "e", "l", "l", "o", NL, "w", "o", "r", "l", "d", NL, NL,
           "2", NL>>
      \o Stamp("3", "4") \o <<NL, "B", "y", "e">>

Samples ==
    { SrtSample,
      <<"a", NL, "b", NL, NL, "c">>,
      <<"a", NL, NL, "b", NL, "c">>,
      <<"a", CR, NL, "b", CR, "c">>,
      <<"a", CR, NL, CR, NL, "b", NL>>,
      <<"a", NL, SP, NL, NL, SP, "b", SP, NL, "c", NL, "d", NL, "e">>,
      \* a cue with no text, then a cue
      <<"1", NL>> \o Stamp("1", "2") \o <<NL, NL, "2", NL, "a">>,
      \* no blanks around the arrow; one-character arrow
      Clock("1") \o <<"-", "-", ">">> \o Clock("2") \o <<NL, "a">>,
      Clock("1") \o <<SP, "-", ">", SP>> \o Clock("2") \o <<NL, "a">> }

\* build_ppt's and parse_bilingual's default keyword arguments
DefaultCall ==
    [mode |-> "single", blank_slide_on_empty |-> FALSE, font_name |-> Arial,
     primary_font |-> Arial, secondary_font |-> Arial]
DefaultPb == [use_blank_as_separator |-> TRUE, blank_line_as_slide |-> FALSE]

\* the widgets: those of the other mode's column keep their default value
UiStates(fonts) ==
    { [bilingual |-> FALSE, blank_on_empty |-> b, font_name |-> f,
       use_blank_sep |-> FALSE, bi_blankline_slide |-> TRUE,
       prim_font |-> Arial, sec_font |-> Arial] :
         b \in BOOLEAN, f \in fonts }
    \cup
    { [bilingual |-> TRUE, blank_on_empty |-> TRUE, font_name |-> Arial,
       use_blank_sep |-> s, bi_blankline_slide |-> o,
       prim_font |-> f, sec_font |-> g] :
         s \in BOOLEAN, o \in BOOLEAN, f \in fonts, g \in fonts }

\* the widgets' value= defaults
DefaultUi ==
    [bilingual |-> FALSE, blank_on_empty |-> TRUE, font_name |-> Arial,
     use_blank_sep |-> FALSE, bi_blankline_slide |-> TRUE,
     prim_font |-> Arial, sec_font |-> Arial]

InitWith(texts, fonts) ==
    /\ pc = "idle" /\ entry = "none"
    /\ raw_text \in texts
    /\ driver \in {"ui", "script"}
    /\ ui \in UiStates(fonts)
    /\ driver = "script" => ui = DefaultUi
    /\ pt = [mode |-> "line", preserve_blanks |-> FALSE]
    /\ pb = DefaultPb
    /\ raw_lines = <<>> /\ lines = <<>> /\ i = 0 /\ buf = <<>> /\ pairs = <<>>
    /\ lines_src = <<>> /\ buf_src = <<>> /\ origin = <<>>
    /\ items = <<>> /\ call = DefaultCall /\ k = 0 /\ prs = <<>>

Init == InitWith(Texts \cup Samples, {Arial})

\* ---------------------------------------------------- parse_bilingual
\* lines = [ln.strip() for ln in raw_lines
\*          if (ln.strip() != "" or not use_blank_as_separator)]
flat_lines(raw, use_blank_as_separator) ==
    SelectSeq(MapStrip(raw),
              LAMBDA s : s # <<>> \/ ~use_blank_as_separator)

\* history: the raw line numbers the comprehension keeps
flat_lines_src(raw, use_blank_as_separator) ==
    SelectSeq([j \in 1..Len(raw) |-> j],
              LAMBDA j : strip(raw[j]) # <<>> \/ ~use_blank_as_separator)

\* the generate button, bilingual branch, up to parse_bilingual's loops
GenerateBilingual ==
    /\ pc = "idle" /\ driver = "ui" /\ ui.bilingual
    /\ entry' = "generate_bilingual"
    /\ pb' = [use_blank_as_separator |-> ui.use_blank_sep,
              blank_line_as_slide |-> ui.bi_blankline_slide]
    /\ raw_lines' = splitlines(raw_text)
    /\ IF ui.bi_blankline_slide
       THEN /\ pc' = "pair_own"
            /\ UNCHANGED <<lines, lines_src>>
       ELSE /\ pc' = "pair_simple"
            /\ lines' = flat_lines(splitlines(raw_text), ui.use_blank_sep)
            /\ lines_src' = flat_lines_src(splitlines(raw_text), ui.use_blank_sep)
    /\ UNCHANGED <<inputs, pt, i, buf, pairs, buf_src, origin, builder>>

\* build_ppt is entered with parse_bilingual's result
CallBuildBilingual(result) ==
    /\ items' = result
    /\ call' = [DefaultCall EXCEPT !.mode = "bilingual",
                                   !.primary_font = ui.prim_font,
                                   !.secondary_font = ui.sec_font]
    /\ pc' = "build"
    /\ UNCHANGED <<k, prs>>

\* PairOwnStep with a blank line also discarding the pending line
PairOwnStep_BlankClearsBuf ==
    /\ pc = "pair_own" /\ i < Len(raw_lines)
    /\ LET s == strip(raw_lines[i + 1])
       IN  IF s = <<>>
           THEN /\ pairs' = Append(pairs, Tuple(<<>>, <<>>))
                /\ origin' = Append(origin, {i + 1})
                /\ buf' = <<>> /\ buf_src' = <<>>
           ELSE IF Len(buf) + 1 = 2
           THEN /\ pairs' = Append(pairs, Tuple(buf[1], s))
                /\ origin' = Append(origin, {buf_src[1], i + 1})
                /\ buf' = <<>> /\ buf_src' = <<>>
           ELSE /\ buf' = Append(buf, s)
                /\ buf_src' = Append(buf_src, i + 1)
                /\ UNCHANGED <<pairs, origin>>
    /\ i' = i + 1
    /\ UNCHANGED <<pc, inputs, entry, pt, pb, raw_lines, lines, lines_src, builder>>

\* one iteration of the own-slide loop
PairOwnStep ==
    /\ pc = "pair_own" /\ i < Len(raw_lines)
    /\ LET s == strip(raw_lines[i + 1])
       IN  IF s = <<>>
           THEN /\ pairs' = Append(pairs, Tuple(<<>>, <<>>))
                /\ origin' = Append(origin, {i + 1})
                /\ UNCHANGED <<buf, buf_src>>
           ELSE IF Len(buf) + 1 = 2
           THEN /\ pairs' = Append(pairs, Tuple(buf[1], s))
                /\ origin' = Append(origin, {buf_src[1], i + 1})
                /\ buf' = <<>> /\ buf_src' = <<>>
           ELSE /\ buf' = Append(buf, s)
                /\ buf_src' = Append(buf_src, i + 1)
                /\ UNCHANGED <<pairs, origin>>
    /\ i' = i + 1
    /\ UNCHANGED <<pc, inputs, entry, pt, pb, raw_lines, lines, lines_src, builder>>

\* after the own-slide loop: the odd line, return, build_ppt called
PairOwnEnd ==
    /\ pc = "pair_own" /\ i = Len(raw_lines)
    /\ LET result == IF buf # <<>> THEN Append(pairs, Tuple(buf[1], <<>>))
                     ELSE pairs
       IN  /\ pairs' = result
           /\ origin' = IF buf # <<>> THEN Append(origin, {buf_src[1]})
                        ELSE origin
           /\ CallBuildBilingual(result)
    /\ UNCHANGED <<inputs, entry, pt, pb, raw_lines, lines, i, buf,
                   lines_src, buf_src>>

\* PairSimpleStep with the bound of the second slot off by one
PairSimpleStep_OffByOne ==
    /\ pc = "pair_simple" /\ i < Len(lines)
    /\ LET l1 == lines[i + 1]
           l2 == IF i + 2 < Len(lines) THEN lines[i + 2] ELSE <<>>
       IN  pairs' = Append(pairs, Tuple(l1, l2))
    /\ origin' = Append(origin,
                   {lines_src[j] : j \in {i + 1, i + 2} \cap 1..Len(lines)})
    /\ i' = i + 2
    /\ UNCHANGED <<pc, inputs, entry, pt, pb, raw_lines, lines, buf,
                   lines_src, buf_src, builder>>

\* one iteration of the simple policy's while loop
PairSimpleStep ==
    /\ pc = "pair_simple" /\ i < Len(lines)
    /\ LET l1 == lines[i + 1]
           l2 == IF i + 1 < Len(lines) THEN lines[i + 2] ELSE <<>>
       IN  pairs' = Append(pairs, Tuple(l1, l2))
    /\ origin' = Append(origin,
                   {lines_src[j] : j \in {i + 1, i + 2} \cap 1..Len(lines)})
    /\ i' = i + 2
    /\ UNCHANGED <<pc, inputs, entry, pt, pb, raw_lines, lines, buf,
                   lines_src, buf_src, builder>>

PairSimpleEnd ==
    /\ pc = "pair_simple" /\ i >= Len(lines)
    /\ CallBuildBilingual(pairs)
    /\ UNCHANGED <<inputs, entry, pt, pairer>>

\* ---------------------------------------------------------- generate
\* GenerateSingle with the checkbox not passed on to parse_text
GenerateSingle_KeepsBlanks ==
    /\ pc = "idle" /\ driver = "ui" /\ ~ui.bilingual
    /\ entry' = "generate_single"
    /\ pt' = [mode |-> "line", preserve_blanks |-> TRUE]
    /\ items' = StrItems(parse_text(raw_text, "line", TRUE))
    /\ call' = [DefaultCall EXCEPT !.mode = "single",
                                   !.blank_slide_on_empty = ui.blank_on_empty,
                                   !.font_name = ui.font_name]
    /\ pc' = "build"
    /\ UNCHANGED <<inputs, pairer, k, prs>>

\* the generate button, single branch: parse_text, then build_ppt called
GenerateSingle ==
    /\ pc = "idle" /\ driver = "ui" /\ ~ui.bilingual
    /\ entry' = "generate_single"
    /\ pt' = [mode |-> "line", preserve_blanks |-> ui.blank_on_empty]
    /\ items' = StrItems(parse_text(raw_text, "line", ui.blank_on_empty))
    /\ call' = [DefaultCall EXCEPT !.mode = "single",
                                   !.blank_slide_on_empty = ui.blank_on_empty,
                                   !.font_name = ui.font_name]
    /\ pc' = "build"
    /\ UNCHANGED <<inputs, pairer, k, prs>>

\* parse_text and build_ppt called with arguments of the caller's choice
CallDirect ==
    /\ pc = "idle" /\ driver = "script"
    /\ \E m \in {"line", "para", "srt"}, p \in BOOLEAN,
          bm \in {"single", "bilingual"}, b \in BOOLEAN :
          /\ bm = "bilingual" => ~b
          /\ pt' = [mode |-> m, preserve_blanks |-> p]
          /\ items' = StrItems(parse_text(raw_text, m, p))
          /\ call' = [DefaultCall EXCEPT !.mode = bm,
                                         !.blank_slide_on_empty = b]
    /\ entry' = "direct"
    /\ pc' = "build"
    /\ UNCHANGED <<inputs, pairer, k, prs>>

\* --------------------------------------------------------- build_ppt
\* one iteration of build_ppt's for loop
BuildStep ==
    /\ pc = "build" /\ k < Len(items)
    /\ prs' = build_item(prs, items[k + 1], call)
    /\ k' = k + 1
    /\ UNCHANGED <<pc, inputs, entry, pt, pairer, items, call>>

\* prs.save(bio); return
BuildDone ==
    /\ pc = "build" /\ k = Len(items)
    /\ pc' = "done"
    /\ UNCHANGED <<inputs, entry, pt, pairer, builder>>

Next ==
    \/ GenerateBilingual
    \/ PairOwnStep
    \/ PairOwnEnd
    \/ PairSimpleStep
    \/ PairSimpleEnd
    \/ GenerateSingle
    \/ CallDirect
    \/ BuildStep
    \/ BuildDone

Spec == Init /\ [][Next]_vars

\* the font-name inputs: empty, blank, padded, plain, and the default
FontNames == {<<>>, <<SP>>, <<SP, "A", SP>>, <<"A">>, Arial}
MaxFontTextLen == 2     \* longest enumerated text when the fonts vary
FontTexts == UNION {[1..n -> Alphabet] : n \in 0..MaxFontTextLen}

InitFont == InitWith(FontTexts, FontNames)
SpecFont == InitFont /\ [][Next]_vars

\* =====================================================================
\* Properties
\* =====================================================================

\* ---- vocabulary of the properties, independent of the parsers
\* all characters are whitespace: "blank after trimming"
IsBlank(s) == \A j \in 1..Len(s) : IsSpace(s[j])

\* the text with every line break (\r\n, \r, \n) written as one \n
CanonBreaks(s) ==
    LET kept == SelectSeq([j \in 1..Len(s) |-> j],
                          LAMBDA j : ~(s[j] = NL /\ j > 1 /\ s[j - 1] = CR))
    IN  [n \in 1..Len(kept) |-> IF s[kept[n]] = CR THEN NL ELSE s[kept[n]]]

\* the lines of a text: the pieces its line breaks terminate, plus an
\* unterminated last piece when there is one
LinesOf(t) ==
    LET c == CanonBreaks(t)
        cuts == {j \in 1..Len(c) : c[j] = NL}
                  \cup (IF c # <<>> /\ c[Len(c)] # NL THEN {Len(c) + 1} ELSE {})
        from(e) == IF \E d \in cuts : d < e
                   THEN SetMax({d \in cuts : d < e}) + 1 ELSE 1
        nth(n) == CHOOSE e \in cuts : Cardinality({d \in cuts : d <= e}) = n
    IN  [n \in 1..Cardinality(cuts) |-> SubSeq(c, from(nth(n)), nth(n) - 1)]

\* the pieces joined by single line breaks
RECURSIVE JoinNL(_)
JoinNL(ls) ==
    IF ls = <<>> THEN <<>>
    ELSE IF Len(ls) = 1 THEN ls[1]
    ELSE ls[1] \o <<NL>> \o JoinNL(Tail(ls))

DropFinalNL(c) ==
    IF c # <<>> /\ c[Len(c)] = NL THEN SubSeq(c, 1, Len(c) - 1) ELSE c

Vals(us) == [j \in 1..Len(us) |-> us[j].val]
Count(us, P(_)) == Cardinality({j \in 1..Len(us) : P(us[j])})

Bilingual == entry = "generate_bilingual"
OwnSlide == Bilingual /\ pb.blank_line_as_slide
Simple == Bilingual /\ ~pb.blank_line_as_slide
Paired == pc \in {"build", "done"}

\* ------------------------------------------------------------------ C2
\* what the scan described by C2 has emitted and holds pending after the
\* lines ls: a blank line emits a marker and keeps the buffer; a second
\* pending line emits the pair and clears the buffer
RECURSIVE OwnScan(_)
OwnScan(ls) ==
    IF ls = <<>> THEN [out |-> <<>>, pend |-> <<>>]
    ELSE LET before == OwnScan(SubSeq(ls, 1, Len(ls) - 1))
             s == strip(ls[Len(ls)])
         IN  IF IsBlank(ls[Len(ls)])
             THEN [out |-> Append(before.out, BlankSlideMarker),
                   pend |-> before.pend]
             ELSE IF Len(before.pend) = 1
             THEN [out |-> Append(before.out, Tuple(before.pend[1], s)),
                   pend |-> <<>>]
             ELSE [out |-> before.out, pend |-> <<s>>]

OwnResult(ls) ==
    LET sc == OwnScan(ls)
    IN  IF sc.pend # <<>> THEN Append(sc.out, Tuple(sc.pend[1], <<>>))
        ELSE sc.out

IsMarker(u) == u = BlankSlideMarker
IsTextPair(u) == u # BlankSlideMarker

\* C2: under the blank-as-own-slide policy, after each scanned line the
\* result list and the buffer are what the scan rule gives (a blank line
\* emits one marker at once and leaves the buffer alone, the buffer is
\* emitted as a pair and cleared when it reaches 2 lines); on return a
\* single buffered line is emitted as (line, ""); so the result has one
\* marker per blank line and ceil(n/2) pairs for n non-blank lines, and
\* "a\nb\n\nc" gives [("a","b"), marker, ("c","")], for either value of
\* use_blank_as_separator.
C2_OwnSlideScan ==
    OwnSlide =>
      LET all == LinesOf(raw_text)
          n == Count(all, LAMBDA l : ~IsBlank(l))
      IN  /\ pc = "pair_own" =>
                /\ i <= Len(all)
                /\ pairs = OwnScan(SubSeq(all, 1, i)).out
                /\ buf = OwnScan(SubSeq(all, 1, i)).pend
                /\ Len(buf) < 2
          /\ Paired =>
                /\ pairs = OwnResult(all)
                /\ Count(pairs, IsMarker) = Count(all, IsBlank)
                /\ Count(pairs, IsTextPair) = (n + 1) \div 2
                /\ raw_text = <<"a", NL, "b", NL, NL, "c">> =>
                      pairs = <<Tuple(<<"a">>, <<"b">>), BlankSlideMarker,
                                Tuple(<<"c">>, <<>>)>>

\* the example input scanned to the end under the own-slide policy, with
\* use_blank_as_separator set as well
C2_Witness ==
    /\ OwnSlide /\ pc = "done" /\ pb.use_blank_as_separator
    /\ raw_text = <<"a", NL, "b", NL, NL, "c">>
    /\ pairs = <<Tuple(<<"a">>, <<"b">>), BlankSlideMarker, Tuple(<<"c">>, <<>>)>>

\* ------------------------------------------------------------------ C3
\* the flat list C3 describes: the trimmed lines, without the blank ones
\* when blanks are separators
FlatEntries ==
    LET trimmed == MapStrip(LinesOf(raw_text))
    IN  IF pb.use_blank_as_separator
        THEN SelectSeq(trimmed, LAMBDA l : l # <<>>)
        ELSE trimmed

\* the m-th pair of a flat list
PairAt(es, m) ==
    Tuple(es[2 * m - 1], IF 2 * m <= Len(es) THEN es[2 * m] ELSE <<>>)

\* C3: under the simple-pairing policy the flat list is the trimmed
\* lines (blank ones dropped iff use_blank_as_separator), and the result
\* is exactly ceil(n/2) pairs (e[1],e[2]), (e[3],e[4]), ... in order, an
\* unpaired last entry as (entry, ""); "a\n\nb\nc" with blanks dropped
\* gives [("a","b"), ("c","")].
C3_SimplePairing ==
    Simple =>
      LET es == FlatEntries
      IN  /\ lines = es
          /\ pc = "pair_simple" =>
                /\ i % 2 = 0 /\ i <= Len(es) + 1
                /\ Len(pairs) = i \div 2
                /\ \A m \in 1..Len(pairs) : pairs[m] = PairAt(es, m)
          /\ Paired =>
                /\ Len(pairs) = (Len(es) + 1) \div 2
                /\ \A m \in 1..Len(pairs) : pairs[m] = PairAt(es, m)
                /\ (raw_text = <<"a", NL, NL, "b", NL, "c">>
                      /\ pb.use_blank_as_separator) =>
                      pairs = <<Tuple(<<"a">>, <<"b">>), Tuple(<<"c">>, <<>>)>>

\* the example input paired to the end with blanks dropped
C3_Witness ==
    /\ Simple /\ pc = "done" /\ pb.use_blank_as_separator
    /\ raw_text = <<"a", NL, NL, "b", NL, "c">>
    /\ pairs = <<Tuple(<<"a">>, <<"b">>), Tuple(<<"c">>, <<>>)>>

\* ------------------------------------------------------------------ C5
\* C5: the result's order is the input's line order: when unit u comes
\* before unit v, every line u was made from comes before every line v
\* was made from.
C5_OrderMatchesInput ==
    Bilingual =>
      \A u \in 1..Len(pairs), v \in 1..Len(pairs) :
         u < v => \A a \in origin[u], b \in origin[v] : a < b

\* C5 restricted to the simple-pairing policy (where it holds)
C5_OrderSimple == Simple => C5_OrderMatchesInput

\* ------------------------------------------------------------------ C4
\* the own-slide half: a pair never holds a blank line
C4_OwnSlidePairsHoldNoBlank ==
    (OwnSlide /\ Paired) =>
       \A m \in 1..Len(pairs) :
          IsTextPair(pairs[m]) =>
             /\ pairs[m].val[1] # <<>>
             /\ pairs[m].val[2] = <<>> =>
                   /\ m = SetMax({j \in 1..Len(pairs) : IsTextPair(pairs[j])})
                   /\ Cardinality(origin[m]) = 1

\* C4: the two policies never conflate: under simple pairing no unit of
\* the result is the blank-slide marker; under the own-slide policy no
\* blank line sits in a pair: every pair has a non-empty first slot, and
\* an empty second slot only in the pair of the trailing unpaired line.
C4_PoliciesNeverConflate ==
    /\ (Simple /\ Paired) => \A m \in 1..Len(pairs) : ~IsMarker(pairs[m])
    /\ C4_OwnSlidePairsHoldNoBlank

\* ------------------------------------------------------------------ C1
BoxCount(slide) == Len(slide.shapes)

\* C1: in the built bilingual deck every slide has the background fill;
\* the slide of a blank-slide marker (one per blank line under the
\* own-slide policy) has no text box, the slide of any pair, ("", "")
\* included, has exactly two.
C1_BoxesByUnitKind ==
    (Bilingual /\ pc = "done") =>
       \A m \in 1..Len(items) :
          /\ prs[m].fill = bg_rgb
          /\ IF pb.blank_line_as_slide /\ IsMarker(items[m])
             THEN BoxCount(prs[m]) = 0
             ELSE BoxCount(prs[m]) = 2

\* the pair half of C1 alone (where it holds)
C1_PairsGetTwoBoxes ==
    (Bilingual /\ pc = "done") =>
       \A m \in 1..Len(items) :
          ~(pb.blank_line_as_slide /\ IsMarker(items[m])) =>
             BoxCount(prs[m]) = 2

\* ------------------------------------------------------------------ C6
\* the strings of a unit, in order
UnitTexts(u) == IF u.type = "tuple" THEN u.val ELSE <<u.val>>
\* the strings of a slide's text boxes, in order
SlideTexts(slide) == [n \in 1..Len(slide.shapes) |-> slide.shapes[n].text]

\* C6: build_ppt appends exactly one slide per unit, in order: after k
\* units the deck holds k slides, slide m carries unit m's strings (or
\* no box at all), and the finished deck has as many slides as units.
C6_OneSlidePerUnit ==
    pc \in {"build", "done"} =>
       /\ k <= Len(items)
       /\ Len(prs) = k
       /\ \A m \in 1..Len(prs) :
             SlideTexts(prs[m]) \in {<<>>, UnitTexts(items[m])}
       /\ pc = "done" => Len(prs) = Len(items)

\* a finished deck of several slides, blank and text slides mixed, in
\* single mode
C6_Witness ==
    /\ pc = "done" /\ call.mode = "single" /\ Len(items) >= 3
    /\ Len(prs) = Len(items)
    /\ \E m \in 1..Len(prs) : BoxCount(prs[m]) = 0
    /\ \E m \in 1..Len(prs) : BoxCount(prs[m]) = 1

\* ------------------------------------------------------------------ C7
LineMode == entry \in {"generate_single", "direct"} /\ pt.mode = "line"
               /\ pc \in {"build", "done"}

\* C7: line mode. Keeping blanks, the units are the text's lines, one
\* per line and verbatim, and joined by line breaks they give the text
\* back (line breaks as \n, the final one dropped). Not keeping blanks,
\* the units are the lines that are not blank, trimmed, in order.
C7_LineMode ==
    LineMode =>
       IF pt.preserve_blanks
       THEN /\ Len(items) = Len(LinesOf(raw_text))
            /\ Vals(items) = LinesOf(raw_text)
            /\ \A m \in 1..Len(items) :
                  \A j \in 1..Len(items[m].val) : ~IsBreak(items[m].val[j])
            /\ JoinNL(Vals(items)) = DropFinalNL(CanonBreaks(raw_text))
       ELSE /\ Vals(items) =
                 MapStrip(SelectSeq(LinesOf(raw_text), LAMBDA l : ~IsBlank(l)))
            /\ \A m \in 1..Len(items) :
                  /\ items[m].val # <<>>
                  /\ ~IsSpace(items[m].val[1])
                  /\ ~IsSpace(items[m].val[Len(items[m].val)])

\* blanks kept: an empty unit next to a unit with its blanks untrimmed
C7_Witness ==
    /\ LineMode /\ pt.preserve_blanks /\ pc = "done"
    /\ \E m \in 1..Len(items) : items[m].val = <<>>
    /\ \E m \in 1..Len(items) :
          items[m].val # <<>> /\ IsSpace(items[m].val[1])
             /\ ~IsBlank(items[m].val)

\* ------------------------------------------------------------------ C8
SrtMode == entry = "direct" /\ pt.mode = "srt" /\ pc \in {"build", "done"}

\* the lines of a block that C8 keeps, trimmed
KeptOfBlock(b) ==
    SelectSeq(MapStrip(LinesOf(b)),
              LAMBDA l : ~IsBlank(l) /\ ~isdigit(l) /\ ~ts_re_match(l))

Hello == <<"H", "e", "l", "l", "o">>
World == <<"w", "o", "r", "l", "d">>
Bye == <<"B", "y", "e">>

\* C8: subtitle mode. The units are, in order, one per block of the
\* trimmed text that keeps a line, each the block's kept lines (not
\* empty, not a number, not a timestamp range) trimmed and joined by one
\* blank; a block keeping nothing gives no unit, so no unit is empty;
\* the two-cue example gives exactly ["Hello world", "Bye"].
C8_SubtitleMode ==
    SrtMode =>
       LET blocks == re_split_blank(strip(raw_text))
           giving == SelectSeq(blocks, LAMBDA b : KeptOfBlock(b) # <<>>)
       IN  /\ Len(items) = Len(giving)
           /\ \A m \in 1..Len(items) :
                 /\ items[m].val = join_space(KeptOfBlock(giving[m]))
                 /\ items[m].val # <<>>
           /\ raw_text = SrtSample =>
                 Vals(items) = <<Hello \o <<SP>> \o World, Bye>>

\* the two-cue example segmented
C8_Witness ==
    /\ SrtMode /\ pc = "done" /\ raw_text = SrtSample
    /\ Vals(items) = <<Hello \o <<SP>> \o World, Bye>>

\* ----------------------------------------------------------------- C10
SingleBuild == entry \in {"generate_single", "direct"} /\ call.mode = "single"
                  /\ pc \in {"build", "done"}

\* C10: single mode. With blank_slide_on_empty a unit that is blank
\* after trimming gets a background-only slide and any other unit one
\* text box; without it every unit, "" included, gets one text box. The
\* generate action passes one checkbox as preserve_blanks and as
\* blank_slide_on_empty: checked, the deck has one slide per input line,
\* the blank lines' slides background-only; unchecked, one slide per
\* non-blank line and no background-only slide.
C10_SingleModeBlanks ==
    /\ SingleBuild =>
          \A m \in 1..Len(prs) :
             /\ prs[m].fill = bg_rgb
             /\ BoxCount(prs[m]) =
                  IF call.blank_slide_on_empty /\ IsBlank(items[m].val)
                  THEN 0 ELSE 1
    /\ (entry = "generate_single" /\ pc = "done") =>
          LET ls == LinesOf(raw_text)
          IN  IF ui.blank_on_empty
              THEN /\ Len(prs) = Len(ls)
                   /\ \A m \in 1..Len(prs) :
                         IF IsBlank(ls[m]) THEN BoxCount(prs[m]) = 0
                         ELSE SlideTexts(prs[m]) = <<ls[m]>>
              ELSE /\ Len(prs) = Count(ls, LAMBDA l : ~IsBlank(l))
                   /\ \A m \in 1..Len(prs) : BoxCount(prs[m]) = 1

\* the button pressed with the box checked, on a text with a blank line
\* between two lines of text
C10_Witness ==
    /\ entry = "generate_single" /\ pc = "done" /\ ui.blank_on_empty
    /\ Len(prs) >= 3
    /\ \E m \in 2..(Len(prs) - 1) :
          /\ BoxCount(prs[m]) = 0
          /\ BoxCount(prs[m - 1]) = 1 /\ BoxCount(prs[m + 1]) = 1

\* ------------------------------------------------------------------ C9
\* the font name configured for the n-th box of a slide
ConfiguredFont(n) ==
    IF call.mode = "bilingual"
    THEN IF n = 1 THEN call.primary_font ELSE call.secondary_font
    ELSE call.font_name

\* C9: the font name applied to a text box is never blank: a configured
\* name that is blank after trimming gives "Arial", any other name gives
\* the name trimmed.
C9_FontNeverBlank ==
    pc \in {"build", "done"} =>
       \A m \in 1..Len(prs) : \A n \in 1..BoxCount(prs[m]) :
          /\ prs[m].shapes[n].font # <<>>
          /\ prs[m].shapes[n].font =
                IF IsBlank(ConfiguredFont(n)) THEN Arial
                ELSE strip(ConfiguredFont(n))

\* C9 for the names that are empty or not blank (where it holds)
C9_FontUnlessWhitespaceOnly ==
    pc \in {"build", "done"} =>
       \A m \in 1..Len(prs) : \A n \in 1..BoxCount(prs[m]) :
          (ConfiguredFont(n) = <<>> \/ ~IsBlank(ConfiguredFont(n))) =>
             prs[m].shapes[n].font =
                IF ConfiguredFont(n) = <<>> THEN Arial
                ELSE strip(ConfiguredFont(n))

====
